---- MODULE Spec2Model ----
(***************************************************************************)
(* State-machine model of the WebRTC signalling broker (src/server.js).    *)
(*                                                                         *)
(* Scheduling.  The broker runs on one event loop.  A handler runs without *)
(* interruption up to an await.  The awaits of joinLobby on generateCode   *)
(* and on a cache hit of loadGame, and the awaits of the close handler,    *)
(* wait on promises that are settled by code that has already run, so the  *)
(* handler resumes in the microtask phase of the same event-loop turn: no  *)
(* connection, frame, close or timer event of another socket is delivered  *)
(* in between.  Frames of ONE connection that arrive in one chunk are      *)
(* emitted back to back by the transport, so their handlers do start while *)
(* an earlier one is suspended.  The await of loadGame on a cache miss     *)
(* waits for the store query (load_from_db), and any event may be          *)
(* delivered before it resumes.                                            *)
(*                                                                         *)
(* Transport.  ws.send / ws.close calls made by a step are logged in out,  *)
(* in call order.  ws.close moves an open transport to "closing"; the      *)
(* 'close' event (CloseEvent) is delivered later.  Frames already in       *)
(* flight are still delivered to a closing transport.                      *)
(*                                                                         *)
(* Identities.  randomId gives each connection an identity; as the source  *)
(* assumes, identities of different connections differ and are neither 0   *)
(* nor the reserved in-lobby id 1.                                         *)
(***************************************************************************)
EXTENDS Integers, Sequences, FiniteSets, TLC

\* ---------------------------------------------------------------- bounds
NumPeers == 4          \* connections that arrive during a run
MaxLobbyObjects == 3   \* Lobby objects alive at the same time
MaxMembers == 3        \* entries of one Lobby's member list
MaxEntries == 2        \* member-list entries that hold the same peer
MaxSealTimers == 1     \* seal teardown timers armed at once on one lobby
MaxPending == 1        \* store queries in flight at the same time

\* ------------------------------------------- program constants (scaled)
\* The limits keep their role and their comparisons; their values are scaled
\* down so that runs reach them.
MAX_SAVE_GAMES == 1    \* src/server.js line 8
MAX_PEERS == 3         \* src/server.js line 9
MAX_LOBBIES == 2       \* src/server.js line 10

CMD_JOIN == 0
CMD_ID == 1
CMD_PEER_CONNECT == 2
CMD_PEER_DISCONNECT == 3
CMD_OFFER == 4
CMD_ANSWER == 5
CMD_CANDIDATE == 6
CMD_SEAL == 7
CMD_HOST_CHANGED == 8

STR_NO_LOBBY == "Have not joined lobby yet"
STR_ONLY_HOST_CAN_SEAL == "Only host can seal the lobby"
STR_SEAL_COMPLETE == "Seal complete"
STR_TOO_MANY_LOBBIES == "Too many lobbies open, disconnecting"
STR_ALREADY_IN_LOBBY == "Already in a lobby"
STR_LOBBY_DOES_NOT_EXISTS == "Lobby does not exists"
STR_LOBBY_IS_SEALED == "Lobby is sealed"
STR_INVALID_FORMAT == "Invalid message format"
STR_NEED_LOBBY == "Invalid message when not in a lobby"
STR_SERVER_ERROR == "Server error, lobby not found"
STR_INVALID_DEST == "Invalid destination"
STR_INVALID_CMD == "Invalid command"
STR_TOO_MANY_PEERS == "Too many peers connected"
STR_NEW_HOST == "You are now the host"
STR_ONLY_HOST_CAN_SAVE == "Only host can save game state"
\* message of the TypeError raised by lobby.host on an undefined lobby
STR_TYPE_ERROR == "Cannot read properties of undefined"

\* ------------------------------------------------------------- universes
Peers == 1..NumPeers
LobbyObjs == 1..MaxLobbyObjects
\* the codes the generator hands out, in the order of its counter
CodeSeq == <<"X", "Y", "Z">>
Codes == {CodeSeq[i] : i \in 1..Len(CodeSeq)}
Blobs == {"b1", "b2"}
None == "none"            \* null / undefined / absent
Payloads == {"sdp"}

VARIABLES
    ws,          \* ws[p]: "idle" (not yet arrived), "open", "closing", "closed"
    accepted,    \* accepted[p]: a Peer was constructed for the connection
    plobby,      \* Peer.lobby
    timeout,     \* Peer.timeout is armed
    peersCount,  \* let peersCount
    lobbies,     \* const lobbies: code -> Lobby object, 0 when absent
    lob,         \* the Lobby objects: name, host, mesh, peers, sealed, gameState
    sealTimers,  \* sealTimers[l]: armed closeTimer callbacks of Lobby l
    counter,     \* codeGenerator.counter
    savedGames,  \* gameStateDB.savedGames, in insertion order
    clock,       \* Date.now()
    store,       \* table sessions of the external store: code -> blob
    dbw,         \* upserts handed to save_to_db, not yet settled
    mt,          \* JOIN handlers suspended until the microtask phase
    emitting,    \* connection whose chunk of frames is being emitted, or 0
    io,          \* JOIN handlers suspended on the store query of load_from_db
    out,         \* ws.send / ws.close calls of the last step, in order
    wasSealed,   \* history: the codes under which a lobby has been sealed
    gone,        \* history: gone[c] is the game state lobby c had when its
                 \* host left as the last member, until the next JOIN for c
    gen,         \* the code generator on its own: counter, seed, codes issued
    calc,        \* the last application of a pure function: op, input, output
    db           \* sql.js: pool, reconnectPromise, recreations, safeQuery calls

\* the variables of the broker
broker == <<ws, accepted, plobby, timeout, peersCount, lobbies, lob, sealTimers,
            counter, savedGames, clock, store, dbw, mt, emitting, io, out,
            wasSealed, gone>>
vars == <<broker, gen, calc, db>>

\* the generator and function studies when they are not running
NoGen == [counter |-> 0, seed |-> 0, issued |-> <<>>, wrapped |-> FALSE,
          skips |-> 0]
NoCalc == [op |-> "", input |-> 0, code |-> <<>>, output |-> 0]
\* sql.js as the module is loaded: let pool = null, reconnectPromise = null;
\* no recreation has run and no safeQuery has been called
NoDb == [pool |-> 0, built |-> 0, reconnectPromise |-> 0, recs |-> <<>>,
         calls |-> <<>>]

\* ---------------------------------------------------------------- helpers
\* const id = randomId(): distinct per connection, never 0 or 1
PeerId(p) == p + 1

\* ProtoMessage(type, id, data) handed to ws.send of peer p
Frame(p, type, id, data) ==
    [to |-> p, kind |-> "send", type |-> type, id |-> id, data |-> data]
\* ws.send(blob, {binary: true}) on peer p
BinaryFrame(p, blob) ==
    [to |-> p, kind |-> "binary", type |-> -1, id |-> 0, data |-> blob]
\* ws.close(code, reason) on peer p
CloseCall(p, code, reason) ==
    [to |-> p, kind |-> "close", type |-> code, id |-> 0, data |-> reason]

\* new Lobby(name, host, mesh)
NewLobby(name, host, mesh) ==
    [name |-> name, host |-> host, mesh |-> mesh, peers |-> <<>>,
     sealed |-> FALSE, gameState |-> None]
\* a Lobby slot that holds no object
FreeLobby == NewLobby("", 0, FALSE)

\* the transports on which the calls in o invoke ws.close
ClosedBy(o) == {o[i].to : i \in {j \in 1..Len(o) : o[j].kind = "close"}}
\* effect of the ws.close calls in o: an open transport starts closing
WsAfter(o) ==
    [p \in Peers |-> IF p \in ClosedBy(o) /\ ws[p] = "open" THEN "closing" ELSE ws[p]]

Registered == {c \in Codes : lobbies[c] # 0}
\* lobbies.size
LobbiesSize == Cardinality(Registered)

RECURSIVE SeqToSet(_)
SeqToSet(s) == IF s = <<>> THEN {} ELSE {Head(s)} \cup SeqToSet(Tail(s))

\* index of the first element of s equal to x, 0 when there is none
RECURSIVE IndexOf(_, _, _)
IndexOf(s, x, i) ==
    IF i > Len(s) THEN 0 ELSE IF s[i] = x THEN i ELSE IndexOf(s, x, i + 1)

\* s without its element at index i (Array.splice(i, 1))
RemoveAt(s, i) == SubSeq(s, 1, i - 1) \o SubSeq(s, i + 1, Len(s))

\* ----------------------------------------------------------------- Lobby
\* Lobby.getPeerId(peer) returning the raw identity for the host too
getPeerIdRaw(L, p) == PeerId(p)
\* Lobby.getPeerId(peer)
getPeerId(L, p) == IF L.host = PeerId(p) THEN 1 ELSE PeerId(p)

\* the forEach of Lobby.join: each member is told of the newcomer and the
\* newcomer of each member, in the order of the member list
RECURSIVE JoinNotify(_, _, _, _)
JoinNotify(L, p, assigned, i) ==
    IF i > Len(L.peers) THEN <<>>
    ELSE <<Frame(L.peers[i], CMD_PEER_CONNECT, assigned, ""),
           Frame(p, CMD_PEER_CONNECT, getPeerId(L, L.peers[i]), "")>>
         \o JoinNotify(L, p, assigned, i + 1)

\* Lobby.join(peer): the frames it sends
JoinFrames(L, p) ==
    <<Frame(p, CMD_ID, getPeerId(L, p), IF L.mesh THEN "true" ELSE "")>>
    \o JoinNotify(L, p, getPeerId(L, p), 1)

\* Lobby.join(peer): the lobby afterwards
JoinLobbyObj(L, p) == [L EXCEPT !.peers = Append(@, p)]

\* one frame of the given type and id to every member, in list order
RECURSIVE Broadcast(_, _, _, _)
Broadcast(peers, type, id, data) ==
    IF peers = <<>> THEN <<>>
    ELSE <<Frame(Head(peers), type, id, data)>> \o Broadcast(Tail(peers), type, id, data)

\* Lobby.seal's timer callback closing the host's connection only
CloseHost(peers, code, reason) ==
    IF peers = <<>> THEN <<>> ELSE <<CloseCall(Head(peers), code, reason)>>
\* ws.close(code, reason) on every member, in list order
RECURSIVE CloseAll(_, _, _)
CloseAll(peers, code, reason) ==
    IF peers = <<>> THEN <<>>
    ELSE <<CloseCall(Head(peers), code, reason)>> \o CloseAll(Tail(peers), code, reason)

\* Lobby.leave with the assignment this.host = newHost.id left out
leaveKeepsHost(L, p) ==
    LET idx == IndexOf(L.peers, p, 1)
        rest == RemoveAt(L.peers, idx)
    IN  IF idx = 0
        THEN [lobby |-> L, out |-> <<>>, shouldClose |-> FALSE, save |-> FALSE]
        ELSE IF getPeerId(L, p) = 1
        THEN IF rest = <<>>
             THEN [lobby |-> [L EXCEPT !.peers = rest], out |-> <<>>,
                   shouldClose |-> TRUE, save |-> L.gameState # None]
             ELSE [lobby |-> [L EXCEPT !.peers = rest],
                   out |-> <<Frame(rest[1], CMD_HOST_CHANGED, 1, STR_NEW_HOST)>>,
                   shouldClose |-> FALSE, save |-> FALSE]
        ELSE [lobby |-> [L EXCEPT !.peers = rest],
              out |-> Broadcast(rest, CMD_PEER_DISCONNECT, getPeerId(L, p), ""),
              shouldClose |-> FALSE, save |-> FALSE]

\* Lobby.leave(peer): the lobby afterwards, the frames sent, the returned
\* flag, and whether gameStateDB.saveGame was called
leave(L, p) ==
    LET idx == IndexOf(L.peers, p, 1)
        assigned == getPeerId(L, p)
        wasHost == assigned = 1
        rest == RemoveAt(L.peers, idx)
    IN  IF idx = 0
        THEN [lobby |-> L, out |-> <<>>, shouldClose |-> FALSE, save |-> FALSE]
        ELSE IF wasHost
        THEN IF rest = <<>>
             THEN [lobby |-> [L EXCEPT !.peers = rest], out |-> <<>>,
                   shouldClose |-> TRUE, save |-> L.gameState # None]
             ELSE [lobby |-> [L EXCEPT !.peers = rest, !.host = PeerId(rest[1])],
                   out |-> <<Frame(rest[1], CMD_HOST_CHANGED, 1, STR_NEW_HOST)>>,
                   shouldClose |-> FALSE, save |-> FALSE]
        ELSE [lobby |-> [L EXCEPT !.peers = rest],
              out |-> Broadcast(rest, CMD_PEER_DISCONNECT, assigned, ""),
              shouldClose |-> FALSE, save |-> FALSE]

\* ----------------------------------------------------------- GameStateDB
\* an entry of savedGames: {gameState, timestamp} stored by saveGame
SaveEntry(code, blob, ts) ==
    [code |-> code, kind |-> "save", gameState |-> blob, timestamp |-> ts]
\* the pending promise of load_from_db that loadGame stores as the entry:
\* it has no gameState and no timestamp
PromiseEntry(code) ==
    [code |-> code, kind |-> "promise", gameState |-> None, timestamp |-> -1]

\* position of the entry for code in the map, 0 when there is none
RECURSIVE CacheIndex(_, _, _)
CacheIndex(cache, code, i) ==
    IF i > Len(cache) THEN 0
    ELSE IF cache[i].code = code THEN i ELSE CacheIndex(cache, code, i + 1)

\* Map.set: an existing key keeps its position, a new key goes last
CacheSet(cache, e) ==
    LET i == CacheIndex(cache, e.code, 1)
    IN  IF i = 0 THEN Append(cache, e) ELSE [cache EXCEPT ![i] = e]

\* getOldestSave(): index of the first entry with the strictly smallest
\* timestamp; an entry without a timestamp never compares smaller
RECURSIVE OldestFrom(_, _, _, _)
OldestFrom(cache, i, best, bestTime) ==
    IF i > Len(cache) THEN best
    ELSE IF cache[i].kind = "save" /\ (best = 0 \/ cache[i].timestamp < bestTime)
         THEN OldestFrom(cache, i + 1, i, cache[i].timestamp)
         ELSE OldestFrom(cache, i + 1, best, bestTime)
getOldestSave(cache) == OldestFrom(cache, 1, 0, 0)

\* saveOldestGameIfNeeded(): the map afterwards and the upserts handed to
\* save_to_db
saveOldestGameIfNeeded(cache) ==
    LET o == getOldestSave(cache)
    IN  IF Len(cache) > MAX_SAVE_GAMES /\ o # 0
        THEN [cache |-> RemoveAt(cache, o),
              writes |-> {<<cache[o].code, cache[o].gameState>>}]
        ELSE [cache |-> cache, writes |-> {}]

\* saveGame(joinCode, gameState) at clock reading ts
saveGame(cache, code, blob, ts) ==
    saveOldestGameIfNeeded(CacheSet(cache, SaveEntry(code, blob, ts)))

\* load_from_db(code): line 113 reads the undeclared name rozws, which
\* raises a ReferenceError inside the try block whatever the query returned;
\* a failed query raises as well.  The catch block logs and returns nothing,
\* so the promise resolves to undefined for every content of the store.
load_from_db(rows) == None

\* loadGame(joinCode), the part that runs before it returns its promise.
\* hit: an entry exists (a saved game or an earlier promise) and its
\* gameState field is the result.  Otherwise the promise of load_from_db,
\* not its result, is tested and stored, so the miss branch is always taken.
loadGame(cache, code) ==
    LET i == CacheIndex(cache, code, 1)
    IN  IF i # 0
        THEN [hit |-> TRUE, result |-> cache[i].gameState,
              cache |-> cache, writes |-> {}]
        ELSE LET r == saveOldestGameIfNeeded(CacheSet(cache, PromiseEntry(code)))
             IN  [hit |-> FALSE, result |-> load_from_db(store[code]),
                  cache |-> r.cache, writes |-> r.writes]

\* ------------------------------------------------------- Lobby objects
\* slots that hold no Lobby object
FreeSlots == {l \in LobbyObjs : lob[l].name = ""}
\* a Lobby that is in no registry entry and in no timer closure is garbage
Collect(lobF, regF, timersF) ==
    [l \in LobbyObjs |->
        IF (\E c \in Codes : regF[c] = l) \/ timersF[l] > 0
        THEN lobF[l] ELSE FreeLobby]

\* no handler waits for the microtask phase: the next event is delivered
MacroReady == mt = {}
\* a frame of connection p can be delivered now
CanDeliver(p) ==
    /\ accepted[p]
    /\ ws[p] \in {"open", "closing"}
    /\ (mt = {} \/ emitting = p)

\* ------------------------------------------------------------ connection
\* the capacity test of wss.on('connection') left out
tooManyPeersNever == FALSE
\* wss.on('connection'): if (peersCount >= MAX_PEERS)
tooManyPeers == peersCount >= MAX_PEERS

\* wss.on('connection')
Connect(p) ==
    /\ MacroReady
    /\ ws[p] = "idle"
    /\ \A q \in Peers : q < p => ws[q] # "idle"
    /\ IF tooManyPeers
       THEN /\ out' = <<CloseCall(p, 4000, STR_TOO_MANY_PEERS)>>
            /\ ws' = [ws EXCEPT ![p] = "closing"]
            /\ UNCHANGED <<accepted, timeout, peersCount>>
       ELSE /\ out' = <<>>
            /\ ws' = [ws EXCEPT ![p] = "open"]
            /\ accepted' = [accepted EXCEPT ![p] = TRUE]
            /\ timeout' = [timeout EXCEPT ![p] = TRUE]
            /\ peersCount' = peersCount + 1
    /\ UNCHANGED <<plobby, lobbies, lob, sealTimers, counter, savedGames, clock,
                   store, dbw, mt, emitting, io>>

\* the socket of a connection that was turned away closes: no handler runs
RejectedClose(p) ==
    /\ MacroReady
    /\ ws[p] = "closing"
    /\ ~accepted[p]
    /\ ws' = [ws EXCEPT ![p] = "closed"]
    /\ out' = <<>>
    /\ UNCHANGED <<accepted, plobby, timeout, peersCount, lobbies, lob, sealTimers,
                   counter, savedGames, clock, store, dbw, mt, emitting, io>>

\* a handler suspended in an await: a JOIN in joinLobby (kind "create" on
\* generateCode, kind "restore" on loadGame), or the close handler in its
\* await of Lobby.leave (kind "close", with the value leave returns)
Continuation(p, kind, id, data, code, saved, shouldClose) ==
    [peer |-> p, kind |-> kind, id |-> id, data |-> data, code |-> code,
     saved |-> saved, shouldClose |-> shouldClose]

\* ws.on('close') up to its await of Lobby.leave, or to its end for a peer
\* in no registered lobby.  leave runs up to its own await of saveGame, whose
\* body has run by then; ts is the reading of Date.now() in saveGame.
CloseEvent(p, ts) ==
    /\ MacroReady
    /\ accepted[p]
    /\ ws[p] \in {"open", "closing"}
    /\ ts \in {clock, clock + 1}
    /\ peersCount' = peersCount - 1
    /\ ws' = [ws EXCEPT ![p] = "closed"]
    /\ IF plobby[p] # "" /\ lobbies[plobby[p]] # 0
       THEN LET l == lobbies[plobby[p]]
                r == leave(lob[l], p)
                s == saveGame(savedGames, lob[l].name, lob[l].gameState, ts)
            IN  /\ out' = r.out
                /\ lob' = [lob EXCEPT ![l] = r.lobby]
                /\ mt' = {Continuation(p, "close", 0, "", plobby[p], None,
                                       r.shouldClose)}
                /\ IF r.save
                   THEN /\ savedGames' = s.cache
                        /\ dbw' = dbw \cup s.writes
                        /\ clock' = ts
                   ELSE /\ ts = clock
                        /\ UNCHANGED <<savedGames, dbw, clock>>
                /\ UNCHANGED timeout
       ELSE /\ ts = clock
            /\ out' = <<>>
            /\ timeout' = [timeout EXCEPT ![p] = FALSE]
            /\ UNCHANGED <<lob, mt, savedGames, dbw, clock>>
    /\ UNCHANGED <<accepted, plobby, lobbies, sealTimers, counter, store,
                   emitting, io>>

\* ws.on('close') after its await: the lobby is deleted if leave said so,
\* peer.lobby is reset and the join deadline is cleared
CloseResume(k) ==
    /\ k \in mt
    /\ k.kind = "close"
    /\ mt' = mt \ {k}
    /\ out' = <<>>
    /\ lobbies' = IF k.shouldClose THEN [lobbies EXCEPT ![plobby[k.peer]] = 0]
                  ELSE lobbies
    /\ lob' = Collect(lob, lobbies', sealTimers)
    /\ plobby' = [plobby EXCEPT ![k.peer] = ""]
    /\ timeout' = [timeout EXCEPT ![k.peer] = FALSE]
    /\ UNCHANGED <<ws, accepted, peersCount, sealTimers, counter, savedGames,
                   clock, store, dbw, emitting, io>>

\* the test of the callback left out
notJoinedAlways(p) == TRUE
\* the callback of Peer.timeout: if (!this.lobby)
notJoined(p) == plobby[p] = ""
\* the callback of Peer.timeout (NO_LOBBY_TIMEOUT)
JoinDeadline(p) ==
    /\ MacroReady
    /\ timeout[p]
    /\ timeout' = [timeout EXCEPT ![p] = FALSE]
    /\ out' = IF notJoined(p) THEN <<CloseCall(p, 4000, STR_NO_LOBBY)>> ELSE <<>>
    /\ ws' = WsAfter(out')
    /\ UNCHANGED <<accepted, plobby, peersCount, lobbies, lob, sealTimers, counter,
                   savedGames, clock, store, dbw, mt, emitting, io>>

\* --------------------------------------------------------------- messages
\* the catch block of ws.on('message'): ws.close(e.code || 4000, e.message)
Fail(p, reason) ==
    /\ out' = <<CloseCall(p, 4000, reason)>>
    /\ ws' = WsAfter(out')
    /\ UNCHANGED <<accepted, plobby, timeout, peersCount, lobbies, lob, sealTimers,
                   counter, savedGames, clock, store, dbw>>

\* the number of member-list entries that hold peer p
Entries(p) ==
    Cardinality({<<l, i>> \in LobbyObjs \X (1..MaxMembers) :
                    i <= Len(lob[l].peers) /\ lob[l].peers[i] = p})

\* joinLobby from line 383 on: peer.lobby is set, Lobby.join runs, the JOIN
\* reply is sent and, for a restored game, the blob as a binary frame.
\* regF and lobF are the registry and the Lobby objects at that point.
Attach(p, code, regF, lobF, blob) ==
    LET l == regF[code]
    IN  /\ Len(lobF[l].peers) < MaxMembers
        /\ Entries(p) < MaxEntries
        /\ out' = JoinFrames(lobF[l], p)
                  \o <<Frame(p, CMD_JOIN, 0, code)>>
                  \o (IF blob # None THEN <<BinaryFrame(p, blob)>> ELSE <<>>)
        /\ ws' = ws
        /\ plobby' = [plobby EXCEPT ![p] = code]
        /\ lobbies' = regF
        /\ lob' = Collect([lobF EXCEPT ![l] = JoinLobbyObj(@, p)], regF, sealTimers)
        /\ UNCHANGED <<accepted, timeout, peersCount, sealTimers, counter,
                       savedGames, clock, store, dbw>>

\* joinLobby line 378 with the sealed check left out
sealedIgnored(L) == FALSE
\* joinLobby line 378: if (lobby.sealed)
sealed(L) == L.sealed

\* the slot the next new Lobby(...) takes
NextSlot == CHOOSE l \in FreeSlots : \A m \in FreeSlots : l <= m

\* a handler may suspend only if a Lobby slot is left for it when it resumes
CanSuspend == Cardinality(FreeSlots) > Cardinality(mt)

\* parseMsg, type JOIN: joinLobby(peer, data, id === 0) up to its first
\* await, or to its end on the path that has none
JoinMsg(p, id, data) ==
    /\ CanDeliver(p)
    /\ IF data = ""
       THEN IF LobbiesSize >= MAX_LOBBIES
            THEN Fail(p, STR_TOO_MANY_LOBBIES) /\ UNCHANGED <<mt, emitting, io>>
            ELSE IF plobby[p] # ""
            THEN Fail(p, STR_ALREADY_IN_LOBBY) /\ UNCHANGED <<mt, emitting, io>>
            ELSE \* generateCode() has advanced the counter when it suspends
                 /\ counter <= Len(CodeSeq)
                 /\ CanSuspend
                 /\ counter' = counter + 1
                 /\ mt' = mt \cup {Continuation(p, "create", id, data,
                                                CodeSeq[counter], None, FALSE)}
                 /\ emitting' = p
                 /\ out' = <<>>
                 /\ UNCHANGED <<ws, accepted, plobby, timeout, peersCount, lobbies,
                                lob, sealTimers, savedGames, clock, store, dbw, io>>
       ELSE IF lobbies[data] = 0
            THEN LET r == loadGame(savedGames, data)
                 IN  /\ out' = <<>>
                     /\ savedGames' = r.cache
                     /\ dbw' = dbw \cup r.writes
                     /\ IF r.hit
                        THEN /\ CanSuspend
                             /\ mt' = mt \cup {Continuation(p, "restore", id, data,
                                                            data, r.result, FALSE)}
                             /\ emitting' = p
                             /\ io' = io
                        ELSE /\ Cardinality(io) < MaxPending
                             /\ io' = io \cup {Continuation(p, "restore", id, data,
                                                            data, r.result, FALSE)}
                             /\ UNCHANGED <<mt, emitting>>
                     /\ UNCHANGED <<ws, accepted, plobby, timeout, peersCount,
                                    lobbies, lob, sealTimers, counter, clock, store>>
            ELSE IF sealed(lob[lobbies[data]])
                 THEN Fail(p, STR_LOBBY_IS_SEALED) /\ UNCHANGED <<mt, emitting, io>>
                 ELSE Attach(p, data, lobbies, lob, None)
                      /\ UNCHANGED <<mt, emitting, io>>

\* every lobby taken for a mesh
isMeshAlways(id) == TRUE
\* parseMsg line 431: joinLobby(peer, data, id === 0)
isMesh(id) == id = 0
\* joinLobby after its await, for continuation k
ResumeBody(k) ==
    LET p == k.peer
        fresh == NewLobby(k.code, PeerId(p), isMesh(k.id))
        reg == [lobbies EXCEPT ![k.code] = NextSlot]
    IN  IF k.kind = "create"
        THEN Attach(p, k.code, reg, [lob EXCEPT ![NextSlot] = fresh], None)
        ELSE IF k.saved = None
        THEN Fail(p, STR_LOBBY_DOES_NOT_EXISTS)
        ELSE IF plobby[p] # ""
        THEN Fail(p, STR_ALREADY_IN_LOBBY)
        ELSE Attach(p, k.code, reg,
                    [lob EXCEPT ![NextSlot] = [fresh EXCEPT !.gameState = k.saved]],
                    k.saved)

\* a handler suspended on generateCode or on a cache hit of loadGame resumes
Resume(k) ==
    /\ k \in mt
    /\ k.kind # "close"
    /\ mt' = mt \ {k}
    /\ emitting' = 0
    /\ io' = io
    /\ ResumeBody(k)

\* the store query of load_from_db has settled: the handler resumes
QueryDone(k) ==
    /\ MacroReady
    /\ k \in io
    /\ io' = io \ {k}
    /\ UNCHANGED <<mt, emitting>>
    /\ ResumeBody(k)

\* a text frame that is no JSON, or whose type or id is missing or negative
InvalidMsg(p) ==
    /\ CanDeliver(p)
    /\ Fail(p, STR_INVALID_FORMAT)
    /\ UNCHANGED <<mt, emitting, io>>

\* parseMsg lines 435-441: the checks every frame but JOIN goes through
LobbyError(p) ==
    IF plobby[p] = "" THEN STR_NEED_LOBBY
    ELSE IF lobbies[plobby[p]] = 0 THEN STR_SERVER_ERROR
    ELSE ""

\* Lobby.seal with the host test left out
sealDeniedNever(L, p) == FALSE
\* Lobby.seal: if (peer.id !== this.host)
sealDenied(L, p) == PeerId(p) # L.host
\* parseMsg, type SEAL: Lobby.seal(peer)
SealMsg(p) ==
    /\ CanDeliver(p)
    /\ UNCHANGED <<mt, emitting, io>>
    /\ IF LobbyError(p) # ""
       THEN Fail(p, LobbyError(p))
       ELSE LET l == lobbies[plobby[p]]
            IN  IF sealDenied(lob[l], p)
                THEN Fail(p, STR_ONLY_HOST_CAN_SEAL)
                ELSE /\ sealTimers[l] < MaxSealTimers
                     /\ lob' = [lob EXCEPT ![l].sealed = TRUE]
                     /\ out' = Broadcast(lob[l].peers, CMD_SEAL, 0, "")
                     /\ sealTimers' = [sealTimers EXCEPT ![l] = @ + 1]
                     /\ UNCHANGED <<ws, accepted, plobby, timeout, peersCount,
                                    lobbies, counter, savedGames, clock, store, dbw>>

\* the callback of Lobby.closeTimer (SEAL_CLOSE_TIMEOUT)
SealTimerFire(l) ==
    /\ MacroReady
    /\ sealTimers[l] > 0
    /\ out' = CloseAll(lob[l].peers, 1000, STR_SEAL_COMPLETE)
    /\ ws' = WsAfter(out')
    /\ sealTimers' = [sealTimers EXCEPT ![l] = @ - 1]
    /\ lob' = Collect(lob, lobbies, sealTimers')
    /\ UNCHANGED <<accepted, plobby, timeout, peersCount, lobbies, counter,
                   savedGames, clock, store, dbw, mt, emitting, io>>

\* Array.find((e) => e.id === destId): the first member with that identity
RECURSIVE FindById(_, _)
FindById(peers, destId) ==
    IF peers = <<>> THEN 0
    ELSE IF PeerId(Head(peers)) = destId THEN Head(peers)
    ELSE FindById(Tail(peers), destId)

\* parseMsg, type OFFER, ANSWER or CANDIDATE
RelayMsg(p, type, id, data) ==
    /\ CanDeliver(p)
    /\ type \in {CMD_OFFER, CMD_ANSWER, CMD_CANDIDATE}
    /\ UNCHANGED <<mt, emitting, io>>
    /\ IF LobbyError(p) # ""
       THEN Fail(p, LobbyError(p))
       ELSE LET L == lob[lobbies[plobby[p]]]
                destId == IF id = 1 THEN L.host ELSE id
                dest == FindById(L.peers, destId)
            IN  IF dest = 0
                THEN Fail(p, STR_INVALID_DEST)
                ELSE /\ out' = <<Frame(dest, type, getPeerId(L, p), data)>>
                     /\ UNCHANGED <<ws, accepted, plobby, timeout, peersCount,
                                    lobbies, lob, sealTimers, counter, savedGames,
                                    clock, store, dbw>>

\* parseMsg, any other type (here: ID)
OtherMsg(p) ==
    /\ CanDeliver(p)
    /\ UNCHANGED <<mt, emitting, io>>
    /\ Fail(p, IF LobbyError(p) # "" THEN LobbyError(p) ELSE STR_INVALID_CMD)

\* the host test of the binary path left out
saveDeniedNever(L, p) == FALSE
\* parseMsg, a binary frame: if (peer.id !== lobby.host)
saveDenied(L, p) == PeerId(p) # L.host
\* parseMsg, a binary frame: lobbies.get(peer.lobby) is undefined for a peer
\* in no registered lobby, and reading its host raises a TypeError
BinaryMsg(p, blob) ==
    /\ CanDeliver(p)
    /\ UNCHANGED <<mt, emitting, io>>
    /\ IF plobby[p] = "" \/ lobbies[plobby[p]] = 0
       THEN Fail(p, STR_TYPE_ERROR)
       ELSE LET l == lobbies[plobby[p]]
            IN  IF saveDenied(lob[l], p)
                THEN Fail(p, STR_ONLY_HOST_CAN_SAVE)
                ELSE /\ lob' = [lob EXCEPT ![l].gameState = blob]
                     /\ out' = <<>>
                     /\ UNCHANGED <<ws, accepted, plobby, timeout, peersCount,
                                    lobbies, sealTimers, counter, savedGames, clock,
                                    store, dbw>>

\* ------------------------------------------------------------------ store
\* the upsert of save_to_db succeeds
UpsertDone(w) ==
    /\ MacroReady
    /\ w \in dbw
    /\ dbw' = dbw \ {w}
    /\ store' = [store EXCEPT ![w[1]] = w[2]]
    /\ out' = <<>>
    /\ UNCHANGED <<ws, accepted, plobby, timeout, peersCount, lobbies, lob,
                   sealTimers, counter, savedGames, clock, mt, emitting, io>>

\* the upsert of save_to_db fails: the error is logged and the row is lost
UpsertFailed(w) ==
    /\ MacroReady
    /\ w \in dbw
    /\ dbw' = dbw \ {w}
    /\ out' = <<>>
    /\ UNCHANGED <<ws, accepted, plobby, timeout, peersCount, lobbies, lob,
                   sealTimers, counter, savedGames, clock, store, mt, emitting, io>>

\* ------------------------------------------------------------------ Next
\* the destination ids a client may name: the host id and the identities
Dests == {1} \cup {PeerId(q) : q \in Peers}

\* The inputs of a run: the connections that arrive, the ids of their JOINs,
\* the JOIN data (joins) and the snapshot blobs (uploads) each of them may
\* send, the relay types they use, how many codes the generator hands out,
\* the clock readings told apart, the peers whose join deadline expires
\* during the run and the number of frames a chunk may hold.
Scenario(peers, senders, ids, joins, uploads, types, codes, clocks, deadlines, batch) ==
    [peers |-> peers, senders |-> senders, ids |-> ids, joins |-> joins, uploads |-> uploads,
     types |-> types, codes |-> codes, clocks |-> clocks,
     deadlines |-> deadlines, batch |-> batch]

\* the process after startup: no connection, no lobby, no saved game
Listening(stores) ==
    /\ ws = [p \in Peers |-> "idle"]
    /\ accepted = [p \in Peers |-> FALSE]
    /\ plobby = [p \in Peers |-> ""]
    /\ timeout = [p \in Peers |-> FALSE]
    /\ peersCount = 0
    /\ lobbies = [cd \in Codes |-> 0]
    /\ lob = [l \in LobbyObjs |-> FreeLobby]
    /\ sealTimers = [l \in LobbyObjs |-> 0]
    /\ counter = 1
    /\ savedGames = <<>>
    /\ clock = 0
    \* rows written by an earlier run of the process
    /\ store \in stores
    /\ dbw = {}
    /\ mt = {}
    /\ emitting = 0
    /\ io = {}
    /\ out = <<>>
    /\ wasSealed = {}
    /\ gone = [cd \in Codes |-> None]

InitC(c, stores) ==
    /\ Listening(stores)
    /\ gen = NoGen
    /\ calc = NoCalc
    /\ db = NoDb

\* ---------------------------------------------------------- code generator
\* SequentialCodeGenerator.ALPHABET, one character per element
ALPHABET ==
    <<"A", "B", "C", "D", "E", "F", "G", "H", "I", "J", "K", "L", "M", "N", "P",
      "Q", "R", "S", "T", "U", "V", "W", "X", "Y", "Z", "1", "2", "3", "4", "5",
      "6", "7", "8", "9">>
BASE == Len(ALPHABET)
CODE_LENGTH == 6
MAX_CODES == BASE ^ CODE_LENGTH
multiplier == 1103515245
increment == 12345

\* The numbers of JavaScript are IEEE-754 doubles.  An integer-valued double
\* is written here as six limbs to base 2^14, least significant first; the
\* result of * and + is the exact result rounded to 53 significant bits, ties
\* to even, and % is exact.
Limb == 16384
Mantissa == 53
ToBig(n) == <<n % Limb, (n \div Limb) % Limb, n \div (Limb * Limb), 0, 0, 0>>

\* carries are moved up from limb i on
RECURSIVE Normalize(_, _, _)
Normalize(cols, i, carry) ==
    IF i > Len(cols) THEN <<>>
    ELSE <<(cols[i] + carry) % Limb>>
         \o Normalize(cols, i + 1, (cols[i] + carry) \div Limb)

\* the sum of the limb products that fall into column i
RECURSIVE ColSum(_, _, _, _)
ColSum(x, y, i, j) ==
    IF j > 3 THEN 0
    ELSE (IF i - j + 1 \in 1..3 THEN x[j] * y[i - j + 1] ELSE 0)
         + ColSum(x, y, i, j + 1)
\* the exact product of two numbers below 2^42
Product(x, y) == Normalize([i \in 1..6 |-> ColSum(x, y, i, 1)], 1, 0)
\* the exact sum of x and an integer n below 2^31
Plus(x, n) == Normalize([i \in 1..6 |-> x[i] + ToBig(n)[i]], 1, 0)

RECURSIVE Bits(_)
Bits(n) == IF n = 0 THEN 0 ELSE 1 + Bits(n \div 2)
RECURSIVE TopLimb(_, _)
TopLimb(x, i) == IF i = 0 THEN 0 ELSE IF x[i] # 0 THEN i ELSE TopLimb(x, i - 1)
\* the number of significant bits of x
BitLen(x) ==
    LET t == TopLimb(x, Len(x))
    IN  IF t = 0 THEN 0 ELSE 14 * (t - 1) + Bits(x[t])

\* x rounded to the nearest double, ties to even; fewer than 14 bits are
\* dropped for the magnitudes that occur (below 2^67)
RoundDouble(x) ==
    LET k == BitLen(x) - Mantissa
    IN  IF k <= 0 THEN x
        ELSE LET unit == 2 ^ k
                 low == x[1] % unit
                 odd == (x[1] \div unit) % 2 = 1
                 up == low > unit \div 2 \/ (low = unit \div 2 /\ odd)
             IN  Normalize([x EXCEPT ![1] = @ - low + (IF up THEN unit ELSE 0)],
                           1, 0)

\* 2r mod m, for r < m
Twice(r, m) == IF r >= m - r THEN r - (m - r) ELSE r + r
RECURSIVE Shift(_, _, _)
Shift(r, n, m) == IF n = 0 THEN r ELSE Twice(Shift(r, n - 1, m), m)
\* the limbs from i up, taken as a number, mod m
RECURSIVE Remainder(_, _, _)
Remainder(x, i, m) ==
    IF i > Len(x) THEN 0
    ELSE LET rest == Remainder(x, i + 1, m)
         IN  IF rest = 0 THEN x[i] % m
             ELSE (Shift(rest, 14, m) + x[i]) % m
\* x % m, exact
Mod(x, m) == Remainder(x, 1, m)

\* EnhancedSequentialCodeGenerator.transformNumber:
\* (sequential * multiplier + increment + seed) % modulus
transformNumber(sequential, seed) ==
    LET product == RoundDouble(Product(ToBig(sequential), ToBig(multiplier)))
        sum1 == RoundDouble(Plus(product, increment))
        sum2 == RoundDouble(Plus(sum1, seed))
    IN  Mod(sum2, MAX_CODES)

\* the while loop of encodeBase34: the digits, most significant first
RECURSIVE Digits(_)
Digits(num) ==
    IF num = 0 THEN <<>>
    ELSE Digits(num \div BASE) \o <<ALPHABET[(num % BASE) + 1]>>
\* the padding loop left out
PadNone(result) == result
\* the padding loop of encodeBase34
RECURSIVE Pad(_)
Pad(result) ==
    IF Len(result) < CODE_LENGTH THEN Pad(<<ALPHABET[1]>> \o result) ELSE result
\* SequentialCodeGenerator.encodeBase34, a code being a sequence of characters
encodeBase34(number) ==
    IF number = 0 THEN [i \in 1..CODE_LENGTH |-> ALPHABET[1]]
    ELSE Pad(Digits(number))

\* ALPHABET.indexOf(char)
indexOf(char) ==
    IF \E i \in 1..BASE : ALPHABET[i] = char
    THEN (CHOOSE i \in 1..BASE : ALPHABET[i] = char) - 1
    ELSE -1
\* the loop of decodeBase34; -1 stands for the Error it throws
RECURSIVE decodeFrom(_, _, _)
decodeFrom(code, i, result) ==
    IF i > Len(code) THEN result
    ELSE IF indexOf(code[i]) = -1 THEN -1
    ELSE decodeFrom(code, i + 1, result * BASE + indexOf(code[i]))
\* SequentialCodeGenerator.decodeBase34
decodeBase34(code) == decodeFrom(code, 1, 0)
\* SequentialCodeGenerator.isValidCode
isValidCode(code) ==
    /\ Len(code) = CODE_LENGTH
    /\ \A i \in 1..Len(code) : indexOf(code[i]) # -1

\* the history variables record what the step did; they guard nothing, and
\* a broker step leaves the generator and function studies alone
History ==
    /\ UNCHANGED <<gen, calc, db>>
    /\ wasSealed' = wasSealed \cup {cd \in Codes : lobbies'[cd] # 0
                                                  /\ lob'[lobbies'[cd]].sealed}
    /\ gone' = [cd \in Codes |->
                  IF lobbies[cd] # 0 /\ lobbies'[cd] = 0
                  THEN lob[lobbies[cd]].gameState
                  ELSE IF gone[cd] = None THEN None
                  ELSE IF \E p \in Peers, id \in {0, 1} : JoinMsg(p, id, cd)
                  THEN None
                  ELSE gone[cd]]

\* connections, JOIN, SEAL and the relay of signalling frames
Signalling(c) ==
    \/ \E p \in c.peers : Connect(p) /\ History
    \/ \E p \in c.peers, ts \in 0..c.clocks : CloseEvent(p, ts) /\ History
    \/ \E k \in mt : CloseResume(k) /\ History
    \/ \E p \in c.deadlines : JoinDeadline(p) /\ History
    \/ \E j \in c.joins, id \in c.ids :
          /\ JoinMsg(j[1], id, j[2])
          /\ counter' <= c.codes + 1
          /\ Cardinality(mt') <= c.batch
          /\ History
    \/ \E k \in mt : Resume(k) /\ History
    \/ \E k \in io : QueryDone(k) /\ History
    \/ \E p \in c.senders : InvalidMsg(p) /\ History
    \/ \E p \in c.senders : SealMsg(p) /\ History
    \/ \E l \in LobbyObjs : SealTimerFire(l) /\ History
    \/ \E p \in c.senders, t \in c.types, d \in Dests, data \in Payloads :
          RelayMsg(p, t, d, data) /\ History
    \/ \E p \in c.senders : OtherMsg(p) /\ History

\* snapshot uploads
Uploads(c) == \E u \in c.uploads : BinaryMsg(u[1], u[2]) /\ History

\* the upserts of evicted snapshots settle
Upserts ==
    \/ \E w \in dbw : UpsertDone(w) /\ History
    \/ \E w \in dbw : UpsertFailed(w) /\ History

\* connections turned away at MAX_PEERS
Capacity(c) == \E p \in c.peers : RejectedClose(p) /\ History

EmptyStore == [cd \in Codes |-> None]
StoreWith(code, blob) == [cd \in Codes |-> IF cd = code THEN blob ELSE None]

Main == Scenario(1..3, 1..3, {1}, (1..3) \X {"", "X"}, (1..2) \X {"b1"}, {CMD_OFFER}, 1, 0, {1}, 2)
Init == InitC(Main, {EmptyStore})
Next == Signalling(Main) \/ Uploads(Main)
Spec == Init /\ [][Next]_vars

\* signalling with the three relay types, no snapshots
Relaying ==
    Scenario(1..3, 1..3, {1}, {<<1, "">>, <<2, "X">>, <<3, "X">>, <<3, "">>}, {},
             {CMD_OFFER, CMD_ANSWER, CMD_CANDIDATE}, 1, 0, {1}, 1)
RelayInit == InitC(Relaying, {EmptyStore})
RelayNext == Signalling(Relaying)
RelaySpec == RelayInit /\ [][RelayNext]_vars

\* snapshots: peer 1 hosts a game and uploads it, peer 2 names a code that
\* does not exist, peer 3 comes back for the game; the store is empty or
\* holds a row for X from an earlier run
Restoring ==
    Scenario(1..3, 1..3, {1}, {<<1, "">>, <<2, "Y">>, <<3, "X">>},
             {<<1, "b1">>, <<1, "b2">>}, {CMD_OFFER}, 1, 1, {1}, 1)
SnapshotInit == InitC(Restoring, {EmptyStore, StoreWith("X", "b2")})
SnapshotNext == Signalling(Restoring) \/ Uploads(Restoring) \/ Upserts
SnapshotSpec == SnapshotInit /\ [][SnapshotNext]_vars

\* a full house: one connection more than MAX_PEERS and one code more than
\* MAX_LOBBIES; peers 1 to 3 open lobbies, peer 1 uploads its game, peers 2
\* and 4 join or come back for X
Crowded ==
    Scenario(1..4, {2}, {1}, {<<1, "">>, <<2, "">>, <<3, "">>, <<4, "X">>},
             {<<1, "b1">>}, {CMD_OFFER}, 3, 0, {4}, 1)
WideInit == InitC(Crowded, {EmptyStore})
WideNext == Signalling(Crowded) \/ Uploads(Crowded) \/ Capacity(Crowded)
WideSpec == WideInit /\ [][WideNext]_vars

\* ================================================================ claims
\* the identities of the members of Lobby L
MemberIds(L) == {PeerId(L.peers[i]) : i \in 1..Len(L.peers)}
\* the Lobby objects the registry holds
RegisteredLobbies == {lobbies[c] : c \in Registered}

\* C1: the host identity of every registered lobby is the identity of one of
\* its members, except for a lobby whose member list is empty because its
\* host left as the last member, during the close handling that removes it.
HostIsMember ==
    \A l \in RegisteredLobbies :
        \/ lob[l].host \in MemberIds(lob[l])
        \/ /\ lob[l].peers = <<>>
           /\ \E k \in mt : /\ k.kind = "close"
                            /\ k.shouldClose
                            /\ k.code = lob[l].name
                            /\ PeerId(k.peer) = lob[l].host
\* C1 witness: a close handler is suspended on the lobby its peer emptied
HostJustLeft ==
    \E l \in RegisteredLobbies :
        /\ lob[l].peers = <<>>
        /\ \E k \in mt : k.kind = "close" /\ k.shouldClose /\ k.code = lob[l].name
\* C2: no member list holds two entries with the same peer identity.
MembersUnique ==
    \A l \in RegisteredLobbies :
        \A i, j \in 1..Len(lob[l].peers) :
            PeerId(lob[l].peers[i]) = PeerId(lob[l].peers[j]) => i = j

\* the step closes p with 4000 "Lobby is sealed" and does nothing else
SealedRejected(p) ==
    /\ out' = <<CloseCall(p, 4000, STR_LOBBY_IS_SEALED)>>
    /\ lob' = lob
    /\ lobbies' = lobbies
    /\ plobby' = plobby

\* C3 as stated: once a lobby has been sealed under a code, every JOIN for
\* that code received afterwards is rejected with 4000 "Lobby is sealed",
\* whatever happened to the sealed lobby in between.  (A JOIN that is not
\* rejected in the step that receives it suspends on loadGame, and a
\* suspended JOIN never ends with "Lobby is sealed".)
SealedForever ==
    [][\A p \in Peers, id \in {0, 1}, cd \in wasSealed :
           JoinMsg(p, id, cd) => SealedRejected(p)]_vars

\* C3, amended: while the lobby sealed under a code is still registered it
\* stays sealed, and every JOIN for that code is rejected with 4000 "Lobby
\* is sealed" and adds no member.
SealedWhileRegistered ==
    [][\A cd \in Registered :
           lob[lobbies[cd]].sealed =>
               /\ lobbies'[cd] = lobbies[cd] => lob'[lobbies[cd]].sealed
               /\ \A p \in Peers, id \in {0, 1} :
                      JoinMsg(p, id, cd) => SealedRejected(p)]_vars
\* C3 witness: a JOIN for a registered sealed lobby has just been refused
SealedJoinRefused ==
    /\ Len(out) = 1
    /\ out[1].kind = "close"
    /\ out[1].data = STR_LOBBY_IS_SEALED
    /\ \E cd \in Registered : lob[lobbies[cd]].sealed

\* C4: when the host seals its lobby, every member of the list is sent
\* SEAL with id 0, in list order, and a teardown timer is armed; an armed
\* timer goes away only by firing, and the firing calls close(1000, "Seal
\* complete") on every peer then in the member list, none of which is open
\* afterwards.
SealTeardown ==
    [][/\ \A p \in Peers :
             (/\ SealMsg(p)
              /\ LobbyError(p) = ""
              /\ lob[lobbies[plobby[p]]].host = PeerId(p))
             => LET l == lobbies[plobby[p]]
                    members == lob[l].peers
                IN  /\ lob'[l].sealed
                    /\ sealTimers'[l] = sealTimers[l] + 1
                    /\ Len(out') = Len(members)
                    /\ \A i \in 1..Len(members) :
                           out'[i] = Frame(members[i], CMD_SEAL, 0, "")
       /\ \A l \in LobbyObjs :
             sealTimers'[l] < sealTimers[l]
             => LET members == lob[l].peers
                IN  /\ sealTimers'[l] = sealTimers[l] - 1
                    /\ Len(out') = Len(members)
                    /\ \A i \in 1..Len(members) :
                           /\ out'[i] = CloseCall(members[i], 1000, STR_SEAL_COMPLETE)
                           /\ ws'[members[i]] # "open"]_vars
\* C4 witness: the teardown timer of a sealed lobby has just closed two peers
SealCompleted ==
    /\ Len(out) >= 2
    /\ \A i \in 1..Len(out) : out[i].kind = "close" /\ out[i].data = STR_SEAL_COMPLETE
    /\ out[1].to # out[2].to
    /\ wasSealed # {}

\* the members of L other than peer p, in joining order
Others(L, p) == SelectSeq(L.peers, LAMBDA q : q # p)

\* C5 (host succession): when the connection of a lobby's host closes while
\* other members remain, the earliest-joined of them becomes the host, it
\* alone is sent HOST_CHANGED with id 1 and "You are now the host", and the
\* lobby stays registered.
HostSuccession ==
    [][\A p \in Peers :
           (ws[p] # "closed" /\ ws'[p] = "closed") =>
               \A cd \in Registered :
                   LET L == lob[lobbies[cd]]
                       rest == Others(L, p)
                   IN  (L.host = PeerId(p) /\ rest # <<>>) =>
                           /\ lobbies'[cd] = lobbies[cd]
                           /\ lob'[lobbies[cd]].host = PeerId(rest[1])
                           /\ out' = <<Frame(rest[1], CMD_HOST_CHANGED, 1,
                                             STR_NEW_HOST)>>]_vars

\* C6: an OFFER, ANSWER or CANDIDATE with destination d from a peer in a
\* registered lobby is forwarded to exactly one peer, a member of the
\* sender's lobby: the host when d = 1, else the member whose identity is d.
\* The forwarded frame keeps type and data, and its id is 1 if the sender is
\* the host, else the sender's identity.  With no such member the sender is
\* closed with 4000 "Invalid destination" and nothing is forwarded.
RelayedToOne ==
    [][\A p \in Peers :
           (LobbyError(p) = "" /\ lob' = lob /\ mt' = mt) =>
               \A t \in {CMD_OFFER, CMD_ANSWER, CMD_CANDIDATE},
                  d \in Dests, data \in Payloads :
                   RelayMsg(p, t, d, data) =>
                       LET L == lob[lobbies[plobby[p]]]
                           target == IF d = 1 THEN L.host ELSE d
                           from == IF L.host = PeerId(p) THEN 1 ELSE PeerId(p)
                       IN  IF target \in MemberIds(L)
                           THEN /\ Len(out') = 1
                                /\ \E i \in 1..Len(L.peers) :
                                      /\ PeerId(L.peers[i]) = target
                                      /\ out'[1] = Frame(L.peers[i], t, from, data)
                                /\ ws' = ws
                           ELSE /\ out' = <<CloseCall(p, 4000, STR_INVALID_DEST)>>
                                /\ ws'[p] # "open"]_vars
\* C6 witness: a member that is not the host has relayed a CANDIDATE to the
\* host through destination 1
RelayedToHost ==
    /\ Len(out) = 1
    /\ out[1].kind = "send"
    /\ out[1].type = CMD_CANDIDATE
    /\ out[1].id > 1
    /\ \E cd \in Registered : /\ lob[lobbies[cd]].host = PeerId(out[1].to)
                               /\ out[1].id \in MemberIds(lob[lobbies[cd]])
\* C6, second witness state: a relay to an identity outside the lobby was refused
RelayRefused ==
    /\ Len(out) = 1
    /\ out[1].kind = "close"
    /\ out[1].data = STR_INVALID_DEST

\* the step restores lobby cd for peer e from snapshot blob: e is its host
\* with id 1, the blob is its game state, and e is sent JOIN(0, cd) and
\* then the blob as a binary frame
Restored(e, cd, blob) ==
    /\ lobbies'[cd] # 0
    /\ lob'[lobbies'[cd]].host = PeerId(e)
    /\ lob'[lobbies'[cd]].peers = <<e>>
    /\ lob'[lobbies'[cd]].gameState = blob
    /\ out' = <<Frame(e, CMD_ID, 1, IF lob'[lobbies'[cd]].mesh THEN "true" ELSE ""),
                Frame(e, CMD_JOIN, 0, cd), BinaryFrame(e, blob)>>

\* C7 (snapshot restore): after the host of lobby X left as the last member
\* with an uploaded game state, the next JOIN for X by a peer in no lobby
\* finds the snapshot and the peer is made host of a recreated lobby X that
\* holds the blob, and is sent JOIN(0, X) and then that blob.
SnapshotRestored ==
    [][/\ \A cd \in Codes, e \in Peers, id \in {0, 1} :
             (gone[cd] # None /\ plobby[e] = "" /\ JoinMsg(e, id, cd)) =>
                 \E k \in mt' : /\ k.peer = e /\ k.kind = "restore"
                                 /\ k.code = cd /\ k.saved = gone[cd]
       /\ \A k \in mt :
             (/\ k.kind = "restore" /\ k.saved # None
              /\ plobby[k.peer] = "" /\ Resume(k))
             => Restored(k.peer, k.code, k.saved)]_vars

\* C8 (store fallback): a JOIN for a code that is in no lobby and not in the
\* cache is answered from the store: with a row for the code the lobby is
\* restored from the row's blob for a peer in no lobby and the cache holds
\* the blob again; with no row the sender is closed with 4000 "Lobby does
\* not exists".
StoreFallback ==
    [][\A k \in io :
           (QueryDone(k) /\ plobby[k.peer] = "") =>
               IF store[k.code] # None
               THEN /\ Restored(k.peer, k.code, store[k.code])
                    /\ \E i \in 1..Len(savedGames') :
                          /\ savedGames'[i].code = k.code
                          /\ savedGames'[i].gameState = store[k.code]
               ELSE out' = <<CloseCall(k.peer, 4000, STR_LOBBY_DOES_NOT_EXISTS)>>]_vars

\* C9: the registry never holds more than MAX_LOBBIES lobbies, whatever the
\* order of the JOINs that create lobbies and the JOINs that restore them.
LobbiesBounded == LobbiesSize <= MAX_LOBBIES

\* the accepted connections that have not closed yet
Live == {p \in Peers : accepted[p] /\ ws[p] \in {"open", "closing"}}

\* C10: peersCount stays within 0..MAX_PEERS and is the number of accepted
\* connections not yet closed; a connection that arrives at MAX_PEERS is
\* closed with 4000 "Too many peers connected" and neither its arrival nor
\* its closing changes the counter, a lobby or the registry.
PeersCounted ==
    /\ [](peersCount \in 0..MAX_PEERS /\ peersCount = Cardinality(Live))
    /\ [][\A p \in Peers :
             /\ (~accepted'[p] /\ ws[p] = "idle" /\ ws'[p] # "idle")
                => /\ peersCount = MAX_PEERS
                   /\ out' = <<CloseCall(p, 4000, STR_TOO_MANY_PEERS)>>
                   /\ UNCHANGED <<peersCount, lob, lobbies, plobby, accepted>>
             /\ (~accepted[p] /\ ws[p] = "closing" /\ ws'[p] = "closed")
                => UNCHANGED <<peersCount, lob, lobbies, plobby, accepted>>]_vars
\* C10 witness: with MAX_PEERS connections live, one more was turned away
\* and its socket has closed
TurnedAway ==
    /\ peersCount = MAX_PEERS
    /\ Cardinality(Live) = MAX_PEERS
    /\ \E p \in Peers : ~accepted[p] /\ ws[p] = "closed"


\* ------------------------------------------------- the generator on its own
\* One EnhancedSequentialCodeGenerator, as server.js line 6 constructs it: the
\* counter is what loadCounter drew (1..10000) and the seed one of the values
\* of Math.floor(Math.random() * 1000000).  gen.issued holds the codes that
\* generateCode returned and the study kept, in order; gen.wrapped records that
\* the counter overflow branch has been taken.
MaxIssued == 3
MaxSkips == 2
Counters == {1, 7, 10000}
Seeds == {0, 1, 999999}
\* numbers of consecutive calls of generateCode whose codes are not kept
Strides == {1064862, 522385852}

GenInit ==
    /\ Listening({EmptyStore})
    /\ calc = NoCalc
    /\ db = NoDb
    /\ gen \in {[NoGen EXCEPT !.counter = c, !.seed = sd] :
                    c \in Counters, sd \in Seeds}

\* the counter after n calls of generateCode: a call that finds the counter
\* at MAX_CODES or above sets it to 1 before it uses and increments it
Advance(c, n) ==
    IF c + n <= MAX_CODES THEN c + n ELSE c + n - (MAX_CODES - 1)

\* EnhancedSequentialCodeGenerator.generateCode, the code it returns
CodeAt(c, seed) ==
    LET sequential == IF c >= MAX_CODES THEN 1 ELSE c
    IN  encodeBase34(transformNumber(sequential, seed))

\* one call of generateCode whose code is kept
Generate ==
    /\ gen.counter # 0
    /\ Len(gen.issued) < MaxIssued
    /\ gen' = [gen EXCEPT !.issued = Append(@, CodeAt(gen.counter, gen.seed)),
                          !.counter = Advance(@, 1),
                          !.wrapped = @ \/ gen.counter >= MAX_CODES]
    /\ UNCHANGED <<broker, calc, db>>

\* n calls of generateCode in a row whose codes are not kept
Skip(n) ==
    /\ gen.counter # 0
    /\ gen.skips < MaxSkips
    /\ gen' = [gen EXCEPT !.counter = Advance(@, n),
                          !.skips = @ + 1,
                          !.wrapped = @ \/ gen.counter + n > MAX_CODES]
    /\ UNCHANGED <<broker, calc, db>>

GenNext ==
    \/ Generate
    \/ \E n \in Strides : Skip(n)
GenSpec == GenInit /\ [][GenNext]_vars

\* C11: within one run of the process, as long as the counter has not wrapped,
\* any two codes returned by generateCode differ.
CodesDistinct ==
    gen.wrapped \/ \A i, j \in 1..Len(gen.issued) :
                       i # j => gen.issued[i] # gen.issued[j]

\* C12: every code that generateCode returns is exactly 6 characters long and
\* matches ^[A-HJ-NP-Z1-9]{6}$: the letters without I and O, the digits
\* without 0.
CodesWellFormed ==
    LET allowed == {"A", "B", "C", "D", "E", "F", "G", "H", "J", "K", "L", "M",
                    "N", "P", "Q", "R", "S", "T", "U", "V", "W", "X", "Y", "Z",
                    "1", "2", "3", "4", "5", "6", "7", "8", "9"}
    IN  \A i \in 1..Len(gen.issued) :
            /\ Len(gen.issued[i]) = 6
            /\ \A k \in 1..Len(gen.issued[i]) : gen.issued[i][k] \in allowed

\* --------------------------------------------------- the codec on its own
\* encodeBase34 applied to a number, then isValidCode or decodeBase34 applied
\* to the code it returned.  calc.input is the number, calc.code the code and
\* calc.output what the last function returned.
Numbers ==
    (0..40) \cup {1155, 1156, 1157, 39303, 39304, 39305, 1336335, 1336336,
                  1336337, 45435423, 45435424, 45435425, 1147691776,
                  MAX_CODES - 2, MAX_CODES - 1}

CodecInit ==
    /\ Listening({EmptyStore})
    /\ gen = NoGen
    /\ db = NoDb
    /\ calc \in {[NoCalc EXCEPT !.op = "number", !.input = n] : n \in Numbers}

Encode ==
    /\ calc.op = "number"
    /\ calc' = [calc EXCEPT !.op = "encodeBase34",
                            !.code = encodeBase34(calc.input),
                            !.output = encodeBase34(calc.input)]
    /\ UNCHANGED <<broker, gen, db>>

Validate ==
    /\ calc.op = "encodeBase34"
    /\ calc' = [calc EXCEPT !.op = "isValidCode",
                            !.output = isValidCode(calc.code)]
    /\ UNCHANGED <<broker, gen, db>>

Decode ==
    /\ calc.op = "encodeBase34"
    /\ calc' = [calc EXCEPT !.op = "decodeBase34",
                            !.output = decodeBase34(calc.code)]
    /\ UNCHANGED <<broker, gen, db>>

CodecNext == Encode \/ Validate \/ Decode
CodecSpec == CodecInit /\ [][CodecNext]_vars

\* C13: for every n with 0 <= n < 34^6, encodeBase34(n) is exactly 6
\* characters of the alphabet, left-padded with 'A'; isValidCode accepts it;
\* and decodeBase34 of it is n again.
CodecRoundTrip ==
    calc.op \in {"encodeBase34", "isValidCode", "decodeBase34"} =>
        /\ Len(calc.code) = 6
        /\ \A k \in 1..Len(calc.code) :
               /\ \E a \in 1..34 : ALPHABET[a] = calc.code[k]
               /\ calc.input < 34 ^ (6 - k) => calc.code[k] = "A"
        /\ calc.op = "isValidCode" => calc.output = TRUE
        /\ calc.op = "decodeBase34" => calc.output = calc.input
\* a number below 34^5 was encoded with padding and decoded again
PaddedDecoded ==
    /\ calc.op = "decodeBase34"
    /\ calc.input = 39304
    /\ calc.code = <<"A", "A", "B", "A", "A", "A">>
    /\ calc.output = 39304

\* ------------------------------------------------------ randomId on its own
\* crypto.randomBytes(4): four bytes, each drawn from a few values
ByteSamples == {0, 1, 127, 128, 255}
\* new Int32Array(buffer)[0]: the bytes read as a little-endian two's
\* complement 32-bit integer
Int32(bytes) ==
    LET low == bytes[1] + 256 * bytes[2] + 65536 * bytes[3]
    IN  IF bytes[4] < 128 THEN bytes[4] * 16777216 + low
        ELSE (bytes[4] - 256) * 16777216 + low
\* Math.abs of a 32-bit integer: a double, written in limbs as above
Abs(v) == IF v >= 0 THEN ToBig(v) ELSE Plus(ToBig(-(v + 1)), 1)
\* randomId of server.js
randomId(bytes) == Abs(Int32(bytes))

IdInit ==
    /\ Listening({EmptyStore})
    /\ gen = NoGen
    /\ db = NoDb
    /\ calc \in {[NoCalc EXCEPT !.op = "randomBytes", !.input = bytes] :
                     bytes \in ByteSamples \X ByteSamples \X ByteSamples
                               \X ByteSamples}

RandomId ==
    /\ calc.op = "randomBytes"
    /\ calc' = [calc EXCEPT !.op = "randomId", !.output = randomId(calc.input)]
    /\ UNCHANGED <<broker, gen, db>>

IdNext == RandomId
IdSpec == IdInit /\ [][IdNext]_vars

\* C14: for every value of the four random bytes, the identity that randomId
\* returns satisfies 0 <= identity < 2^31.
IdentityInRange ==
    calc.op = "randomId" =>
        /\ \A i \in 1..6 : calc.output[i] >= 0
        /\ calc.output[3] < 8
        /\ \A i \in 4..6 : calc.output[i] = 0

\* ----------------------------------------------------------- join deadline
\* the join deadline of p fires in this step: the timer is disarmed by
\* something else than the close handler
DeadlineFires(p) == timeout[p] /\ ~timeout'[p] /\ ws'[p] # "closed"
\* the step calls ws.close(4000, "Have not joined lobby yet") on p
DeadlineCloses(p) ==
    \E i \in 1..Len(out') : out'[i] = CloseCall(p, 4000, STR_NO_LOBBY)

\* C15: when the join deadline of a peer fires, the peer is closed with 4000
\* "Have not joined lobby yet" exactly when its peer.lobby is still empty; a
\* peer whose JOIN completed is never closed by the deadline; and once the
\* transport has closed and close handling is over, the deadline is disarmed
\* and has no effect.
DeadlineExact ==
    /\ [][\A p \in Peers :
            /\ DeadlineFires(p) =>
                  /\ plobby[p] = "" <=> DeadlineCloses(p)
                  /\ plobby[p] = "" => out' = <<CloseCall(p, 4000, STR_NO_LOBBY)>>
                  /\ plobby[p] # "" => out' = <<>> /\ ws' = ws
                  /\ lob' = lob /\ lobbies' = lobbies /\ plobby' = plobby
            /\ DeadlineCloses(p) => DeadlineFires(p) /\ plobby[p] = ""]_vars
    /\ [](\A p \in Peers :
            ws[p] = "closed" /\ (\A k \in mt : k.peer # p) => ~timeout[p])
\* a JOIN of peer 1 is suspended in the snapshot lookup when the deadline
\* closes the peer; no lobby was created
DeadlineDuringJoin ==
    /\ out = <<CloseCall(1, 4000, STR_NO_LOBBY)>>
    /\ ws[1] = "closing"
    /\ \E k \in io : k.peer = 1

\* ------------------------------------------------------------ mesh and star
\* two peers, JOIN frames with id 0 and with id 1
Meshing ==
    Scenario(1..2, 1..2, {0, 1}, {<<1, "">>, <<2, "X">>}, {}, {CMD_OFFER}, 1, 0,
             {1}, 1)
MeshInit == InitC(Meshing, {EmptyStore})
MeshNext == Signalling(Meshing)
MeshSpec == MeshInit /\ [][MeshNext]_vars

\* peer 2 attaches in this step to the registered lobby cd whose only member
\* and host is peer 1
SecondJoins(cd) ==
    /\ lobbies[cd] # 0
    /\ lob[lobbies[cd]].peers = <<1>>
    /\ lob[lobbies[cd]].host = PeerId(1)
    /\ plobby[2] = "" /\ plobby'[2] = cd

\* C16: when A has created lobby X and B then joins X, A is sent PEER_CONNECT
\* with B's identity and B is sent ID with its identity, then PEER_CONNECT
\* with id 1 (then the JOIN reply).  The data of B's ID frame is "true" iff
\* the lobby is a mesh, and the lobby is a mesh iff the JOIN that created it
\* had id 0, whatever the id of B's JOIN: after a creating JOIN with id 1 the
\* data is empty.
MeshFromCreator ==
    [][\A cd \in Codes :
          /\ \A k \in mt :
                k.kind = "create" /\ k.code = cd /\ k \notin mt'
                /\ lobbies[cd] = 0 /\ lobbies'[cd] # 0
                => lob'[lobbies'[cd]].mesh = (k.id = 0)
          /\ lobbies[cd] # 0 /\ lobbies'[cd] = lobbies[cd]
                => lob'[lobbies[cd]].mesh = lob[lobbies[cd]].mesh
          /\ SecondJoins(cd)
                => out' = <<Frame(2, CMD_ID, PeerId(2),
                                  IF lob[lobbies[cd]].mesh THEN "true" ELSE ""),
                            Frame(1, CMD_PEER_CONNECT, PeerId(2), ""),
                            Frame(2, CMD_PEER_CONNECT, 1, ""),
                            Frame(2, CMD_JOIN, 0, cd)>>]_vars
\* B has just joined the star lobby X of A
StarJoined ==
    /\ lobbies["X"] # 0
    /\ ~lob[lobbies["X"]].mesh
    /\ lob[lobbies["X"]].peers = <<1, 2>>
    /\ out = <<Frame(2, CMD_ID, PeerId(2), ""),
               Frame(1, CMD_PEER_CONNECT, PeerId(2), ""),
               Frame(2, CMD_PEER_CONNECT, 1, ""),
               Frame(2, CMD_JOIN, 0, "X")>>
\* C16 as stated: B's JOIN with id 0 into the lobby that A created with id 1
\* is answered with an ID frame whose data is "true"
MeshFromJoiner ==
    [][\A cd \in Codes :
          SecondJoins(cd) /\ ~lob[lobbies[cd]].mesh /\ JoinMsg(2, 0, cd)
          => out' = <<Frame(2, CMD_ID, PeerId(2), "true"),
                      Frame(1, CMD_PEER_CONNECT, PeerId(2), ""),
                      Frame(2, CMD_PEER_CONNECT, 1, ""),
                      Frame(2, CMD_JOIN, 0, cd)>>]_vars

\* ------------------------------------------------------- order of handlers
\* a message handler of connection p is suspended in an await of joinLobby
Suspended(p) == \E k \in mt \cup io : k.peer = p /\ k.kind # "close"
\* the handler of a frame of connection p starts in this step
FrameHandled(p) ==
    \/ \E id \in {0, 1}, data \in Codes \cup {""} : JoinMsg(p, id, data)
    \/ InvalidMsg(p)
    \/ SealMsg(p)
    \/ OtherMsg(p)
    \/ \E t \in {CMD_OFFER, CMD_ANSWER, CMD_CANDIDATE}, d \in Dests,
          data \in Payloads : RelayMsg(p, t, d, data)
    \/ \E blob \in Blobs : BinaryMsg(p, blob)

\* C17: for each connection, the handler of a frame starts only after the
\* handler of the previous frame from that connection has returned, also
\* when that handler is suspended in an await of a JOIN.
HandlersSerial ==
    [][\A p \in Peers : Suspended(p) => ~FrameHandled(p)]_vars

\* ------------------------------------------------------- who may seal
\* C18: a SEAL from a peer that is not the current host of its lobby is
\* rejected by closing that peer with 4000 "Only host can seal the lobby" and
\* changes nothing: sealed keeps its value, no SEAL frame is sent, no timer
\* is armed.  The sealed flag of a lobby becomes true only in the step of a
\* SEAL sent by the peer that is its host in that step.
SealByHostOnly ==
    [][/\ \A p \in Peers :
             /\ LobbyError(p) = ""
             /\ PeerId(p) # lob[lobbies[plobby[p]]].host
             /\ mt' = mt
             /\ SealMsg(p)
             => /\ out' = <<CloseCall(p, 4000, STR_ONLY_HOST_CAN_SEAL)>>
                /\ lob' = lob
                /\ lobbies' = lobbies
                /\ sealTimers' = sealTimers
       /\ \A l \in LobbyObjs :
             ~lob[l].sealed /\ lob'[l].sealed
             => \E p \in Peers :
                   /\ PeerId(p) = lob[l].host
                   /\ plobby[p] # "" /\ lobbies[plobby[p]] = l
                   /\ SealMsg(p)]_vars
\* a member that is not the host has just sent SEAL: it is being closed and
\* its lobby is still open, unsealed and without timer
SealRefused ==
    \E p \in Peers :
        /\ out = <<CloseCall(p, 4000, STR_ONLY_HOST_CAN_SEAL)>>
        /\ ws[p] = "closing"
        /\ plobby[p] # "" /\ lobbies[plobby[p]] # 0
        /\ PeerId(p) # lob[lobbies[plobby[p]]].host
        /\ ~lob[lobbies[plobby[p]]].sealed
        /\ sealTimers[lobbies[plobby[p]]] = 0

\* ------------------------------------------------------- who may upload
\* C19: a binary frame replaces the game state of a lobby only when its
\* sender is in that lobby and is its current host, and then of that lobby
\* only; a binary frame from a peer in no lobby or from a peer that is not
\* the host closes the sender with code 4000 and changes no game state.
UploadByHostOnly ==
    [][/\ \A l \in LobbyObjs :
             /\ lob[l].name # "" /\ lob'[l].name = lob[l].name
             /\ lob'[l].gameState # lob[l].gameState
             => \E p \in Peers, blob \in Blobs :
                   /\ plobby[p] # "" /\ lobbies[plobby[p]] = l
                   /\ PeerId(p) = lob[l].host
                   /\ BinaryMsg(p, blob)
                   /\ lob' = [lob EXCEPT ![l].gameState = blob]
       /\ \A p \in Peers, blob \in Blobs :
             /\ mt' = mt /\ lobbies' = lobbies
             /\ \/ plobby[p] = ""
                \/ lobbies[plobby[p]] = 0
                \/ PeerId(p) # lob[lobbies[plobby[p]]].host
             /\ BinaryMsg(p, blob)
             => /\ Len(out') = 1
                /\ out'[1].kind = "close" /\ out'[1].to = p
                /\ out'[1].type = 4000
                /\ lob' = lob]_vars
\* the host has uploaded b1, and a member that is not the host has just been
\* closed for its upload: the game state is still b1
UploadRefused ==
    \E p \in Peers :
        /\ out = <<CloseCall(p, 4000, STR_ONLY_HOST_CAN_SAVE)>>
        /\ plobby[p] # "" /\ lobbies[plobby[p]] # 0
        /\ PeerId(p) # lob[lobbies[plobby[p]]].host
        /\ lob[lobbies[plobby[p]]].gameState = "b1"

\* ------------------------------------------------------- abandoned lobbies
\* C20: once every peer that ever joined a lobby has disconnected and its
\* close handling has finished, the lobby is no longer in the registry.  A
\* connection that has not arrived yet has joined nothing, so with every
\* arrived connection closed and no handler suspended the registry is empty.
AbandonedLobbyGone ==
    /\ \A p \in Peers : ws[p] \in {"idle", "closed"}
    /\ mt = {}
    /\ io = {}
    => Registered = {}

\* ------------------------------------------------------- snapshot cache
\* C21: after every saveGame and every loadGame the snapshot cache holds at
\* most MAX_SAVE_GAMES entries.
CacheBounded == Len(savedGames) <= MAX_SAVE_GAMES

\* ------------------------------------------------------------------ sql.js
\* db.pool is the module variable pool: 0 for null, otherwise the number of
\* the pool, pools being numbered as they are built (db.built).
\* db.reconnectPromise is 0 for null, otherwise the number of the recreation
\* whose promise it holds; db.recs[r] is the async function of recreation r;
\* db.calls[c] is call c of safeQuery.
MaxCallers == 2
MaxRecreations == 3
Callers == 1..MaxCallers
TRANSIENT_ERROR_CODES ==
    {"PROTOCOL_CONNECTION_LOST", "ECONNRESET", "ECONNREFUSED",
     "PROTOCOL_ENQUEUE_AFTER_FATAL_ERROR", "ETIMEDOUT", "EPIPE",
     "ER_CON_COUNT_ERROR"}
\* recreatePool({ maxAttempts = 5 })
maxAttempts == 5
\* options.retries of the calls; 4 is the default
Retries == {1, 2, 4}
\* what pool.query settles with: rows, or an error with its code and its
\* fatal mark
Rows == [ok |-> TRUE, code |-> "", fatal |-> FALSE]
Errors ==
    {[ok |-> FALSE, code |-> "ECONNRESET", fatal |-> FALSE],
     [ok |-> FALSE, code |-> "ER_PARSE_ERROR", fatal |-> FALSE],
     [ok |-> FALSE, code |-> "ER_UNKNOWN", fatal |-> TRUE]}
NoCall ==
    [pc |-> "idle", retries |-> 0, attempt |-> 0, last |-> <<>>,
     result |-> <<>>, awaits |-> 0, healed |-> ""]

\* safeQuery line 133
isTransient(err) == err.fatal \/ err.code \in TRANSIENT_ERROR_CODES

\* createPool()
createPool(d) ==
    IF d.pool # 0 THEN d ELSE [d EXCEPT !.built = @ + 1, !.pool = d.built + 1]

\* safeQuery lines 126-129: the next attempt of call c is issued
Attempt(d, c) ==
    [createPool(d) EXCEPT !.calls[c].attempt = @ + 1,
                          !.calls[c].pc = "query",
                          !.calls[c].awaits = 0,
                          !.calls[c].healed = ""]

\* recreatePool with the test of reconnectPromise left out
inFlightNever(d) == FALSE
\* recreatePool line 52: if (reconnectPromise)
inFlight(d) == d.reconnectPromise # 0

\* recreatePool() called by call c, up to its first await: it returns the
\* promise of the recreation in flight, or starts one.  The new recreation
\* awaits pool.end() if there is a pool, and otherwise builds the new pool
\* and awaits its first test.
recreatePool(d, c) ==
    LET r == Len(d.recs) + 1
        fresh == IF d.pool # 0
                 THEN [pc |-> "ending", attempt |-> 0, newPool |-> 0]
                 ELSE [pc |-> "testing", attempt |-> 1, newPool |-> d.built + 1]
    IN  IF inFlight(d)
        THEN [d EXCEPT !.calls[c].pc = "recreate",
                       !.calls[c].awaits = d.reconnectPromise]
        ELSE [d EXCEPT !.calls[c].pc = "recreate",
                       !.calls[c].awaits = r,
                       !.recs = Append(@, fresh),
                       !.built = IF d.pool # 0 THEN @ ELSE @ + 1,
                       !.reconnectPromise = r]

\* the promise of recreation r settles: the finally of the call that started
\* it sets reconnectPromise to null, and every call that awaits it goes on
\* to its backoff (safeQuery catches the rejection); the frame of the
\* recreation is gone, its outcome is kept
Settled(d, r, outcome) ==
    [d EXCEPT !.recs[r] = [pc |-> outcome, attempt |-> 0, newPool |-> 0],
              !.reconnectPromise = 0,
              !.calls = [c \in Callers |->
                            IF @[c].pc = "recreate" /\ @[c].awaits = r
                            THEN [@[c] EXCEPT !.pc = "backoff",
                                              !.healed = outcome]
                            ELSE @[c]]]

DbInit ==
    /\ Listening({EmptyStore})
    /\ gen = NoGen
    /\ calc = NoCalc
    /\ db = [NoDb EXCEPT !.calls = [c \in Callers |-> NoCall]]

\* line 136 with the retries counted one too many
rethrowLate(k, o) == k.attempt > k.retries \/ ~isTransient(o)
\* safeQuery line 136: if (attempt >= retries || !isTransient) throw err
rethrow(k, o) == k.attempt >= k.retries \/ ~isTransient(o)

\* safeQuery(sql, params, {retries}) is called
SafeQuery(c, retries) ==
    /\ db.calls[c].pc = "idle"
    /\ db' = Attempt([db EXCEPT !.calls[c].retries = retries], c)
    /\ UNCHANGED <<broker, gen, calc>>

\* pool.query of call c settles with o: lines 129-152
QuerySettles(c, o) ==
    LET k == db.calls[c]
        d == [db EXCEPT !.calls[c].last = <<k.attempt, o>>]
    IN  /\ k.pc = "query"
        /\ db' = IF o.ok
                 THEN [d EXCEPT !.calls[c].pc = "returned",
                                !.calls[c].result = <<k.attempt, o>>]
                 ELSE IF rethrow(k, o)
                 THEN [d EXCEPT !.calls[c].pc = "thrown",
                                !.calls[c].result = <<k.attempt, o>>]
                 ELSE recreatePool(d, c)
        /\ Len(db'.recs) <= MaxRecreations
        /\ UNCHANGED <<broker, gen, calc>>

\* await pool.end() of recreation r settles, either way: lines 60-81
EndSettles(r) ==
    /\ db.recs[r].pc = "ending"
    /\ db' = [db EXCEPT !.pool = 0,
                        !.built = @ + 1,
                        !.recs[r] = [pc |-> "testing", attempt |-> 1,
                                     newPool |-> db.built + 1]]
    /\ UNCHANGED <<broker, gen, calc>>

\* await tryTestConnection(newPool) of recreation r settles: lines 85-92
TestSettles(r, ok) ==
    /\ db.recs[r].pc = "testing"
    /\ db' = IF ok
             THEN Settled([db EXCEPT !.pool = db.recs[r].newPool], r, "ok")
             ELSE [db EXCEPT !.recs[r].pc = "delay"]
    /\ UNCHANGED <<broker, gen, calc>>

\* the delay after a failed test is over: lines 82-83 and 97-98
DelayFires(r) ==
    /\ db.recs[r].pc = "delay"
    /\ db' = IF db.recs[r].attempt < maxAttempts
             THEN [db EXCEPT !.recs[r].attempt = @ + 1,
                             !.recs[r].pc = "testing"]
             ELSE [db EXCEPT !.recs[r].pc = "closing"]
    /\ UNCHANGED <<broker, gen, calc>>

\* await newPool.end() settles and recreation r throws: lines 97-102
CloseSettles(r) ==
    /\ db.recs[r].pc = "closing"
    /\ db' = Settled(db, r, "failed")
    /\ UNCHANGED <<broker, gen, calc>>

\* the backoff of call c is over: the loop continues
BackoffFires(c) ==
    /\ db.calls[c].pc = "backoff"
    /\ db' = Attempt(db, c)
    /\ UNCHANGED <<broker, gen, calc>>

\* what the driver and the timers do
DbSettles ==
    \/ \E c \in Callers, o \in {Rows} \cup Errors : QuerySettles(c, o)
    \/ \E r \in 1..Len(db.recs) : EndSettles(r)
    \/ \E r \in 1..Len(db.recs), ok \in BOOLEAN : TestSettles(r, ok)
    \/ \E r \in 1..Len(db.recs) : DelayFires(r)
    \/ \E r \in 1..Len(db.recs) : CloseSettles(r)
    \/ \E c \in Callers : BackoffFires(c)
DbNext ==
    \/ \E c \in Callers, retries \in Retries : SafeQuery(c, retries)
    \/ DbSettles
\* every pending driver operation settles and every timer fires
DbSpec == DbInit /\ [][DbNext]_vars /\ WF_vars(DbSettles)

\* call c has returned or thrown; what a call holds at each point of its
\* loop; the step in which a non-transient error reaches call c
Finished(c) == db.calls[c].pc \in {"returned", "thrown"}
CallShape(c) ==
    LET k == db.calls[c]
    IN  /\ k.attempt <= k.retries
        /\ k.pc = "returned" =>
              k.result = k.last /\ k.result[1] = k.attempt /\ k.result[2].ok
        /\ k.pc = "thrown" =>
              /\ k.result = k.last /\ k.result[1] = k.attempt
              /\ ~k.result[2].ok
              /\ k.attempt = k.retries \/ ~isTransient(k.result[2])
        /\ k.pc \in {"recreate", "backoff"} =>
              /\ k.last[1] = k.attempt /\ ~k.last[2].ok
              /\ isTransient(k.last[2]) /\ k.attempt < k.retries
FatalAtOnce(c) ==
    db.calls[c].pc = "query" /\ db'.calls[c].last # db.calls[c].last
        /\ ~db'.calls[c].last[2].ok /\ ~isTransient(db'.calls[c].last[2])
    => /\ db'.calls[c].pc = "thrown"
       /\ db'.calls[c].result = <<db.calls[c].attempt, db'.calls[c].last[2]>>
       /\ db'.pool = db.pool /\ db'.built = db.built /\ db'.recs = db.recs
       /\ db'.reconnectPromise = db.reconnectPromise
\* C22: every call of safeQuery finishes; it makes at most retries attempts,
\* returns the rows of the first attempt that succeeds and otherwise throws
\* the error of its last attempt; an error that is not transient is thrown
\* by the step in which its attempt fails, and that step leaves the pool,
\* the recreations and reconnectPromise as they were.
SafeQueryFinishes ==
    /\ [](\A c \in Callers : CallShape(c))
    /\ [][\A c \in Callers : FatalAtOnce(c)]_vars
    /\ \A c \in Callers : (db.calls[c].pc = "query") ~> Finished(c)
\* a call with the default number of retries throws its fourth transient
\* error
RetriesExhausted ==
    \E c \in Callers :
        /\ db.calls[c].pc = "thrown" /\ db.calls[c].retries = 4
        /\ db.calls[c].attempt = 4 /\ isTransient(db.calls[c].result[2])

\* recreation r has not settled; the shape of the recreations and of the
\* calls that wait for one; the step in which call c calls recreatePool
Running(r) == db.recs[r].pc \notin {"ok", "failed"}
OneRecreation ==
    /\ \A r1, r2 \in 1..Len(db.recs) : Running(r1) /\ Running(r2) => r1 = r2
    /\ \A r \in 1..Len(db.recs) : Running(r) <=> db.reconnectPromise = r
    /\ db.reconnectPromise \in 0..Len(db.recs)
SharedOutcome ==
    \A c \in Callers :
        /\ db.calls[c].pc = "recreate" => db.calls[c].awaits = db.reconnectPromise
        /\ db.calls[c].pc = "backoff" =>
              /\ db.calls[c].awaits \in 1..Len(db.recs)
              /\ db.calls[c].healed = db.recs[db.calls[c].awaits].pc
              /\ db.calls[c].healed \in {"ok", "failed"}
CallsRecreate(c) == db.calls[c].pc = "query" /\ db'.calls[c].pc = "recreate"
JoinsOrStarts(c) ==
    CallsRecreate(c) =>
        IF db.reconnectPromise # 0
        THEN /\ db'.recs = db.recs /\ db'.built = db.built /\ db'.pool = db.pool
             /\ db'.reconnectPromise = db.reconnectPromise
             /\ db'.calls[c].awaits = db.reconnectPromise
        ELSE /\ Len(db'.recs) = Len(db.recs) + 1
             /\ db'.reconnectPromise = Len(db'.recs)
             /\ db'.calls[c].awaits = Len(db'.recs)
             /\ db'.recs[Len(db'.recs)].pc \in {"ending", "testing"}
\* C23: at most one pool recreation is in flight, and it is the one whose
\* promise reconnectPromise holds; a call of recreatePool made while one is
\* running starts nothing (no recreation, no pool, the pool variable is left
\* alone) and settles with the outcome of the running one; a call made when
\* none is running starts a new one.
SingleFlight ==
    /\ [](OneRecreation /\ SharedOutcome)
    /\ [][\A c \in Callers : JoinsOrStarts(c)]_vars
\* two calls have waited for the same recreation, which failed; it was
\* started after an earlier one had settled
SharedFailure ==
    \E c1, c2 \in Callers :
        /\ c1 # c2
        /\ db.calls[c1].pc = "backoff" /\ db.calls[c2].pc = "backoff"
        /\ db.calls[c1].awaits = db.calls[c2].awaits
        /\ db.calls[c1].healed = "failed"
        /\ db.calls[c1].awaits > 1

\* ------------------------------------------------------ lobby membership
\* the peers on the member list of Lobby l
Members(l) == {lob[l].peers[i] : i \in 1..Len(lob[l].peers)}
\* C24: every peer in the member list of a registered lobby is a connected
\* peer (its transport has not closed).
MembersConnected ==
    \A c \in Codes :
        lobbies[c] # 0 => \A p \in Members(lobbies[c]) : ws[p] # "closed"

\* two lobbies: peers 1 and 2 open a lobby each, then peer 2 names the code
\* of peer 1's lobby and peer 1 a code that does not exist
Roaming ==
    Scenario(1..2, {1}, {1}, {<<1, "">>, <<2, "">>, <<2, "X">>, <<1, "Z">>}, {},
             {CMD_OFFER}, 2, 0, {2}, 1)
RoamInit == InitC(Roaming, {EmptyStore})
RoamNext == Signalling(Roaming)
RoamSpec == RoamInit /\ [][RoamNext]_vars

\* the close handler of peer p is suspended in its await of Lobby.leave
Closing(p) == \E k \in mt : k.kind = "close" /\ k.peer = p
\* C25: a peer is in the member list of at most one lobby, and a peer whose
\* lobby reference is the code c is a member of the lobby that the registry
\* holds under c (the reference of a peer whose close handler has not yet
\* finished is left out of the second part).
OneLobbyEach ==
    \A p \in Peers :
        /\ Cardinality({l \in LobbyObjs : p \in Members(l)}) <= 1
        /\ plobby[p] # "" /\ ~Closing(p) =>
              lobbies[plobby[p]] # 0 /\ p \in Members(lobbies[plobby[p]])

====
